---- MODULE Spec2Model ----
(***************************************************************************)
(* A model of k2's persistent manifest (src/src/manifest.rs), the result   *)
(* store's job table (src/src/db.rs) and the experiment run loop           *)
(* (src/src/experiment.rs).  The header file is modelled byte for byte, as *)
(* a sequence of one-character strings; every process invocation is a      *)
(* sequence of steps that end at each durable write, so that a kill can     *)
(* fall between any two writes.                                            *)
(***************************************************************************)
EXTENDS Integers, Sequences, FiniteSets, TLC

(***************************************************************************)
(* Bounds of the model.                                                     *)
(***************************************************************************)
\* The largest num_jobs (pexecs * benchmarks.len()) of a fresh experiment.
MaxJobs == 3
\* The number of iterations one behaviour may add to num_reboots.
MaxReboots == 4

(***************************************************************************)
(* Constants of manifest.rs.                                                *)
(***************************************************************************)
NUM_REBOOTS == <<"n", "u", "m", "_", "r", "e", "b", "o", "o", "t", "s">>
NUM_REBOOTS_BYTES == 8
NEXT_IDX == <<"n", "e", "x", "t", "_", "i", "d", "x">>
NEXT_IDX_BYTES == 4
ORDERING == <<"o", "r", "d", "e", "r", "i", "n", "g">>

\* JobStatus, and its `as i64` cast used for the store's status column.
Outstanding == "Outstanding"
Done == "Done"
Error == "Error"
JobStatus == {Outstanding, Done, Error}
StatusCode(status) ==
    CASE status = Outstanding -> 0
      [] status = Done -> 1
      [] status = Error -> 2

\* Result<(), K2Error>, the type of Benchmark::run's result.
Ok == "Ok"
K2Error == {"Unknown", "ExecutionFailed", "RerunError"}
RunResult == {Ok} \cup K2Error

\* Option<T>.
None == <<>>
Some(x) == <<x>>

(***************************************************************************)
(* Decimal text: num_digits, usize::to_string, str::parse::<usize>.        *)
(***************************************************************************)
Digits == <<"0", "1", "2", "3", "4", "5", "6", "7", "8", "9">>
DigitChars == {Digits[i] : i \in 1..10}
DigitVals == [c \in DigitChars |-> CHOOSE d \in 0..9 : Digits[d + 1] = c]
DigitVal(c) == DigitVals[c]

RECURSIVE num_digits(_)
num_digits(value) ==
    IF value < 10 THEN 1 ELSE 1 + num_digits(value \div 10)

RECURSIVE to_string(_)
to_string(value) ==
    IF value < 10
    THEN <<Digits[value + 1]>>
    ELSE to_string(value \div 10) \o <<Digits[(value % 10) + 1]>>

Repeat(c, n) == [i \in 1..n |-> c]

\* Mutant of format_int_field_panics: the assertion is missing.
format_int_field_unchecked(value, width) == FALSE

\* format_int_field panics when the value needs more than `width` bytes.
format_int_field_panics(value, width) == num_digits(value) > width
format_int_field(value, width) ==
    Repeat("0", width - num_digits(value)) \o to_string(value)

\* str::parse::<usize> fails on the empty string and on any non digit.
is_usize(s) == Len(s) > 0 /\ \A i \in 1..Len(s) : s[i] \in DigitChars
RECURSIVE parse_digits(_, _)
parse_digits(s, n) ==
    IF n = 0 THEN 0 ELSE parse_digits(s, n - 1) * 10 + DigitVal(s[n])
parse_usize(s) == parse_digits(s, Len(s))

(***************************************************************************)
(* str::split(sep) and BufRead::lines.                                     *)
(***************************************************************************)
\* A separator of s[lo..hi], 0 when there is none.  Which one is found does
\* not change what SplitRange returns; one within Window of the middle is
\* preferred, which keeps the recursion shallow on a long list.
Window == 2 * NEXT_IDX_BYTES
RECURSIVE NearSep(_, _, _, _, _, _)
NearSep(s, sep, lo, hi, mid, d) ==
    IF mid - d >= lo /\ s[mid - d] = sep THEN mid - d
    ELSE IF mid + d <= hi /\ s[mid + d] = sep THEN mid + d
    ELSE IF d >= Window THEN 0
    ELSE NearSep(s, sep, lo, hi, mid, d + 1)

FindSep(s, sep, lo, hi) ==
    LET near == IF hi - lo <= 4 * Window THEN 0
                ELSE NearSep(s, sep, lo, hi, (lo + hi) \div 2, 0)
        all == {i \in lo..hi : s[i] = sep}
    IN  IF near # 0 THEN near
        ELSE IF all = {} THEN 0
        ELSE CHOOSE i \in all : TRUE

\* The pieces of s[lo..hi] between separators, in order (at least one piece).
RECURSIVE SplitRange(_, _, _, _)
SplitRange(s, sep, lo, hi) ==
    LET m == FindSep(s, sep, lo, hi)
    IN  IF m = 0
        THEN <<SubSeq(s, lo, hi)>>
        ELSE SplitRange(s, sep, lo, m - 1) \o SplitRange(s, sep, m + 1, hi)

Split(s, sep) == SplitRange(s, sep, 1, Len(s))

\* BufRead::lines: the pieces between newlines; a final newline ends the last
\* line and does not start another one, and an empty file has no line.
Lines(bytes) ==
    LET p == Split(bytes, "\n")
    IN  IF Len(p[Len(p)]) = 0 THEN SubSeq(p, 1, Len(p) - 1) ELSE p
(***************************************************************************)
(* ManifestHeader: the in-memory header and its file.                      *)
(***************************************************************************)
\* The struct (hdr_path is the one manifest.k2 of the results directory).
ManifestHeader(num_reboots, num_reboots_offset, next_idx, next_idx_offset, ordering) ==
    [num_reboots |-> num_reboots, num_reboots_offset |-> num_reboots_offset,
     next_idx |-> next_idx, next_idx_offset |-> next_idx_offset,
     ordering |-> ordering]

\* ordering.join(",") of the decimal forms, joined by halves.
RECURSIVE JoinRange(_, _, _)
JoinRange(ordering, lo, hi) ==
    IF lo > hi THEN <<>>
    ELSE IF lo = hi THEN to_string(ordering[lo])
    ELSE LET m == (lo + hi) \div 2
         IN  JoinRange(ordering, lo, m) \o <<",">> \o JoinRange(ordering, m + 1, hi)

ordering_str(ordering) == JoinRange(ordering, 1, Len(ordering))

\* The bytes ManifestHeader::write hands to fs::write.
manifest_hdr_bytes(hdr) ==
    NUM_REBOOTS \o <<"=">> \o format_int_field(hdr.num_reboots, NUM_REBOOTS_BYTES)
    \o <<"\n">> \o
    NEXT_IDX \o <<"=">> \o format_int_field(hdr.next_idx, NEXT_IDX_BYTES)
    \o <<"\n">> \o
    ORDERING \o <<"=">> \o ordering_str(hdr.ordering)

\* The state of parse's loop: the three fields found so far, the offset of
\* the current line, and whether an expect/unwrap/assert has panicked.
ParseStart ==
    [panic |-> FALSE, num_reboots |-> None, next_idx |-> None,
     ordering |-> None, offset |-> 0]

\* Mutant of val_offset: the '=' is not skipped.
val_offset_on_eq(offset, key) == offset + Len(key)

\* The offset of a value: the offset of its line, its key, and the '='.
val_offset(offset, key) == offset + Len(key) + 1

\* One iteration of parse's loop over the lines.
ParseLine(st, line) ==
    LET pair == Split(line, "=")
        key == pair[1]
        value == pair[2]
        items == Split(value, ",")
        width == IF key = NUM_REBOOTS THEN NUM_REBOOTS_BYTES ELSE NEXT_IDX_BYTES
        field == Some(<<parse_usize(value), val_offset(st.offset, key)>>)
    IN  IF Len(pair) # 2
        THEN [st EXCEPT !.panic = TRUE]
        ELSE IF key = ORDERING
        THEN IF \E i \in 1..Len(items) : ~is_usize(items[i])
             THEN [st EXCEPT !.panic = TRUE]
             ELSE [st EXCEPT
                     !.ordering = Some([i \in 1..Len(items) |-> parse_usize(items[i])]),
                     !.offset = st.offset + Len(line) + 1]
        ELSE IF ~is_usize(value) \/ key \notin {NUM_REBOOTS, NEXT_IDX}
                \/ Len(value) # width
        THEN [st EXCEPT !.panic = TRUE]
        ELSE IF key = NUM_REBOOTS
        THEN [st EXCEPT !.num_reboots = field,
                        !.offset = st.offset + Len(line) + 1]
        ELSE [st EXCEPT !.next_idx = field,
                        !.offset = st.offset + Len(line) + 1]

RECURSIVE ParseLines(_, _, _)
ParseLines(st, lines, i) ==
    IF i > Len(lines) \/ st.panic
    THEN st
    ELSE ParseLines(ParseLine(st, lines[i]), lines, i + 1)

\* ManifestHeader::parse: None when it panics, else the header.
parse(bytes) ==
    LET st == ParseLines(ParseStart, Lines(bytes), 1)
    IN  IF st.panic \/ st.num_reboots = None \/ st.next_idx = None
           \/ st.ordering = None
        THEN None
        ELSE Some(ManifestHeader(st.num_reboots[1][1], st.num_reboots[1][2],
                                 st.next_idx[1][1], st.next_idx[1][2],
                                 st.ordering[1]))

\* Seek to `offset` and write `bytes` over the file's bytes (a write past the
\* end would extend the file, with zero bytes in any gap).
write_at(file, offset, bytes) ==
    LET before == IF offset <= Len(file)
                  THEN SubSeq(file, 1, offset)
                  ELSE file \o Repeat("\\0", offset - Len(file))
        after == SubSeq(file, offset + Len(bytes) + 1, Len(file))
    IN  before \o bytes \o after

\* Mutant of sync_num_reboots: the value is written without its padding.
sync_num_reboots_unpadded(hdr, file) ==
    write_at(file, hdr.num_reboots_offset, to_string(hdr.num_reboots))

\* The two writes of ManifestHeader::sync.
sync_num_reboots(hdr, file) ==
    write_at(file, hdr.num_reboots_offset,
             format_int_field(hdr.num_reboots, NUM_REBOOTS_BYTES))
\* Mutants of sync_next_idx: the width of the other field; the value of the
\* other field.
sync_next_idx_wide(hdr, file) ==
    write_at(file, hdr.next_idx_offset,
             format_int_field(hdr.next_idx, NUM_REBOOTS_BYTES))
sync_next_idx_reboots(hdr, file) ==
    write_at(file, hdr.next_idx_offset,
             format_int_field(hdr.num_reboots, NEXT_IDX_BYTES))
\* Mutant of sync_next_idx: next_idx is left for a later write.
sync_next_idx_deferred(hdr, file) == file

sync_next_idx(hdr, file) ==
    write_at(file, hdr.next_idx_offset,
             format_int_field(hdr.next_idx, NEXT_IDX_BYTES))
sync_panics(hdr) ==
    \/ format_int_field_panics(hdr.num_reboots, NUM_REBOOTS_BYTES)
    \/ format_int_field_panics(hdr.next_idx, NEXT_IDX_BYTES)

\* Mutant of random_ordering: every id drawn independently.
random_ordering_drawn(num_jobs) == [1..num_jobs -> 0..(num_jobs - 1)]

\* ManifestHeader::random_ordering: the shuffle can return any permutation
\* of 0..num_jobs.
random_ordering(num_jobs) ==
    {o \in [1..num_jobs -> 0..(num_jobs - 1)] :
        \A i, j \in 1..num_jobs : o[i] = o[j] => i = j}
(***************************************************************************)
(* ManifestManager.                                                         *)
(***************************************************************************)
NoHeader == ManifestHeader(0, 0, 0, 0, <<>>)

\* Mutant of next_job: the last position is never returned.
next_job_short(hdr) ==
    IF hdr.next_idx + 1 < Len(hdr.ordering)
    THEN Some(hdr.ordering[hdr.next_idx + 1])
    ELSE None

\* Mutant of next_job: the job before the cursor is returned.
next_job_before_cursor(hdr) ==
    IF hdr.next_idx < Len(hdr.ordering)
    THEN Some(hdr.ordering[IF hdr.next_idx = 0 THEN 1 ELSE hdr.next_idx])
    ELSE None

\* ManifestManager::next_job.
next_job(hdr) ==
    IF hdr.next_idx < Len(hdr.ordering)
    THEN Some(hdr.ordering[hdr.next_idx + 1])
    ELSE None

\* Mutant of update_status: the cursor advances whatever the status.
update_status_always(hdr, status) ==
    [hdr EXCEPT !.next_idx = hdr.next_idx + 1]

\* ManifestManager::update_status: the header it leaves, and whether its
\* assertion on the width of next_idx panics.
update_status(hdr, status) ==
    IF status \in {Done, Error}
    THEN [hdr EXCEPT !.next_idx = hdr.next_idx + 1]
    ELSE hdr
update_status_panics(hdr, status) ==
    num_digits(update_status(hdr, status).next_idx) > NEXT_IDX_BYTES

\* Mutant of update_num_reboots: the counter is left as it is.
update_num_reboots_skipped(hdr) == hdr

\* ManifestManager::update_num_reboots: the assertion is on the value
\* before the increment.
update_num_reboots(hdr) == [hdr EXCEPT !.num_reboots = hdr.num_reboots + 1]
update_num_reboots_panics(hdr) == num_digits(hdr.num_reboots) > NUM_REBOOTS_BYTES

\* Mutant of bench_index: the index of the process execution.
bench_index_by_pexec(j, len) == j \div len

\* Experiment::run: job % self.benchmarks.len().
bench_index(j, len) == j % len

\* Mutant of classify: only ExecutionFailed is an Error.
classify_unknown_retried(result) ==
    CASE result = Ok -> Done
      [] result = "ExecutionFailed" -> Error
      [] OTHER -> Outstanding

\* The classification of a job's result in Experiment::run.
classify(result) ==
    CASE result = Ok -> Done
      [] result = "RerunError" -> Outstanding
      [] OTHER -> Error

(***************************************************************************)
(* K2Store: the job table.                                                  *)
(***************************************************************************)
\* A row of the job table: job_id is the key of db_rows; `key` is the
\* results key of a benchmark, named here by the benchmark's index.
Job(bench, status) == [key |-> bench, status |-> StatusCode(status)]

\* UPDATE job SET status = $1 WHERE job_id = $2: no row, no change.
store_update_status(rows, id, status) ==
    IF id \in DOMAIN rows
    THEN [rows EXCEPT ![id].status = StatusCode(status)]
    ELSE rows

(***************************************************************************)
(* The state.                                                               *)
(***************************************************************************)
VARIABLES
    config,        \* Config: pexecs, and the number of benchmarks
    reboots0,      \* num_reboots on disk in the initial state (for MaxReboots)
    \* The results directory, which outlives the processes.
    dir_exists,    \* config.results_dir exists
    hdr_exists,    \* manifest.k2 exists
    hdr_bytes,     \* the bytes of manifest.k2
    db_table,      \* the job table of k2.db exists
    db_rows,       \* its rows: job_id -> [key, status]
    \* The process, if one is running.
    pc,            \* where the process is; "idle" when there is none
    exit,          \* how the last process ended
    first_run,     \* Experiment::first_run
    manifest_hdr,  \* ManifestManager::manifest_hdr
    cur_status,    \* ManifestManager::cur_status
    ins,           \* the loop variables of create_job_table
    \* The locals of Experiment::run.
    job,           \* the job next_job() returned
    bench,         \* the index of the benchmark run for it
    result,        \* the result of bench.run
    status,        \* its classification
    \* History.
    persisted,     \* parse(hdr_bytes): what a process starting now would parse
    first_ordering, \* the ordering written when the header was created
    created,       \* this process created the header file
    wrote,         \* this process wrote to the header or the store in run()
    hdr0           \* the header this process parsed, less its ordering

disk == <<dir_exists, hdr_exists, hdr_bytes, db_table, db_rows>>
proc == <<pc, exit, first_run, manifest_hdr, cur_status, ins>>
last == <<job, bench, result, status>>
hist == <<created, wrote, hdr0>>
vars == <<config, reboots0, disk, proc, last, hist, persisted, first_ordering>>

num_jobs == config.pexecs * config.benchmarks

NoIns == [p |-> 0, b |-> 0, id |-> 0]

\* The experiments a behaviour can start from an empty results directory.
Configs ==
    {c \in [pexecs : 0..MaxJobs, benchmarks : 0..MaxJobs] :
        /\ c.pexecs * c.benchmarks <= MaxJobs
        /\ c.pexecs * c.benchmarks = 0 => c.pexecs + c.benchmarks = 1}

NoProcess ==
    /\ pc = "idle"
    /\ exit = "none"
    /\ first_run = FALSE
    /\ manifest_hdr = NoHeader
    /\ cur_status = Outstanding
    /\ ins = NoIns
    /\ job = None
    /\ bench = 0
    /\ result = Ok
    /\ status = Outstanding
    /\ created = FALSE
    /\ wrote = FALSE
    /\ hdr0 = NoHeader

\* No results directory yet.
Init ==
    /\ config \in Configs
    /\ reboots0 = 0
    /\ dir_exists = FALSE
    /\ hdr_exists = FALSE
    /\ hdr_bytes = <<>>
    /\ db_table = FALSE
    /\ db_rows = <<>>
    /\ persisted = None
    /\ first_ordering = None
    /\ NoProcess

\* A results directory left by earlier processes of an experiment whose
\* num_jobs is the least that next_idx cannot count in NEXT_IDX_BYTES digits.
\* All jobs but the last one were Done, one per iteration, and the last job
\* has ended with RerunError in every iteration since, which leaves the row
\* of the job before it Outstanding; num_reboots is one or two short of the
\* least number that does not fit NUM_REBOOTS_BYTES digits.  The next process has
\* parsed the header.
RECURSIVE Pow10(_)
Pow10(n) == IF n = 0 THEN 1 ELSE 10 * Pow10(n - 1)
WideJobs == Pow10(NEXT_IDX_BYTES)
WideOrdering == [i \in 1..WideJobs |-> WideJobs - i]
InitResumed ==
    /\ config = [pexecs |-> WideJobs \div 2, benchmarks |-> 2]
    /\ reboots0 \in {Pow10(NUM_REBOOTS_BYTES) - 2, Pow10(NUM_REBOOTS_BYTES) - 1}
    /\ dir_exists = TRUE
    /\ hdr_exists = TRUE
    /\ hdr_bytes = manifest_hdr_bytes(
                      ManifestHeader(reboots0, 0, WideJobs - 1, 0, WideOrdering))
    /\ db_table = TRUE
    /\ db_rows = [id \in 0..(WideJobs - 1) |->
                    Job(id % 2, IF id >= 2 THEN Done ELSE Outstanding)]
    /\ persisted = parse(hdr_bytes)
    /\ first_ordering = Some(WideOrdering)
    /\ pc = "run"
    /\ exit = "none"
    /\ first_run = FALSE
    /\ manifest_hdr = persisted[1]
    /\ cur_status = Outstanding
    /\ ins = NoIns
    /\ job = None
    /\ bench = 0
    /\ result = Ok
    /\ status = Outstanding
    /\ created = FALSE
    /\ wrote = FALSE
    /\ hdr0 = [persisted[1] EXCEPT !.ordering = <<>>]

\* The smallest fresh experiment, or a resumed one.
InitResume ==
    \/ Init /\ config = [pexecs |-> 1, benchmarks |-> 1]
    \/ InitResumed

(***************************************************************************)
(* The steps of a process.  Each ends at a write to the results directory   *)
(* or at the end of the process.                                            *)
(***************************************************************************)
\* The process ends: its memory is gone.
Exit(how) ==
    /\ pc' = "idle"
    /\ exit' = how
    /\ first_run' = FALSE
    /\ manifest_hdr' = NoHeader
    /\ cur_status' = Outstanding
    /\ ins' = NoIns
    /\ job' = None
    /\ bench' = 0
    /\ result' = Ok
    /\ status' = Outstanding
    /\ created' = FALSE
    /\ wrote' = FALSE
    /\ hdr0' = NoHeader

\* Experiment::new, up to the creation of the results directory.
ExperimentNew ==
    /\ pc = "idle"
    /\ pc' = "hdr_new"
    /\ exit' = "none"
    /\ first_run' = ~dir_exists
    /\ dir_exists' = TRUE
    /\ UNCHANGED <<config, reboots0, hdr_exists, hdr_bytes, db_table, db_rows,
                   manifest_hdr, cur_status, ins, last, hist, persisted,
                   first_ordering>>

\* ManifestHeader::new without a header file: the blank header, and the
\* creation of the file by fs::write.
HeaderCreate ==
    /\ pc = "hdr_new"
    /\ ~hdr_exists
    /\ \E o \in random_ordering(num_jobs) :
          manifest_hdr' = ManifestHeader(0, 0, 0, 0, o)
    /\ hdr_exists' = TRUE
    /\ hdr_bytes' = <<>>
    /\ persisted' = parse(hdr_bytes')
    /\ created' = TRUE
    /\ pc' = "hdr_write"
    /\ UNCHANGED <<config, reboots0, dir_exists, db_table, db_rows, exit,
                   first_run, cur_status, ins, last, first_ordering, wrote,
                   hdr0>>

\* ManifestHeader::write: fs::write writes the bytes of the file.
HeaderWrite ==
    /\ pc = "hdr_write"
    /\ hdr_bytes' = manifest_hdr_bytes(manifest_hdr)
    /\ persisted' = parse(hdr_bytes')
    /\ first_ordering' = Some(manifest_hdr.ordering)
    /\ pc' = "hdr_parse"
    /\ UNCHANGED <<config, reboots0, dir_exists, hdr_exists, db_table, db_rows,
                   exit, first_run, manifest_hdr, cur_status, ins, last,
                   created, wrote, hdr0>>

\* Mutant of HeaderParse: the process that wrote the blank header keeps it
\* as written, offsets included, and does not parse the file.
HeaderParse_unparsed ==
    /\ \/ pc = "hdr_new" /\ hdr_exists
       \/ pc = "hdr_parse"
    /\ LET parsed == parse(hdr_bytes)
       IN  IF parsed = None
           THEN Exit("panic_parse")
           ELSE /\ manifest_hdr' = IF created THEN manifest_hdr ELSE parsed[1]
                /\ hdr0' = [parsed[1] EXCEPT !.ordering = <<>>]
                /\ cur_status' = Outstanding
                /\ pc' = "run"
                /\ UNCHANGED <<exit, first_run, ins, last, created, wrote>>
    /\ UNCHANGED <<config, reboots0, disk, persisted, first_ordering>>

\* ManifestHeader::parse, the rest of ManifestManager::new and K2Store::new.
HeaderParse ==
    /\ \/ pc = "hdr_new" /\ hdr_exists
       \/ pc = "hdr_parse"
    /\ LET parsed == parse(hdr_bytes)
       IN  IF parsed = None
           THEN Exit("panic_parse")
           ELSE /\ manifest_hdr' = parsed[1]
                /\ hdr0' = [parsed[1] EXCEPT !.ordering = <<>>]
                /\ cur_status' = Outstanding
                /\ pc' = "run"
                /\ UNCHANGED <<exit, first_run, ins, last, created, wrote>>
    /\ UNCHANGED <<config, reboots0, disk, persisted, first_ordering>>

\* Experiment::run when next_job() is None: Ok(the path of the store).
RunNone ==
    /\ pc = "run"
    /\ next_job(manifest_hdr) = None
    /\ Exit("ok")
    /\ UNCHANGED <<config, reboots0, disk, persisted, first_ordering>>

\* Experiment::run when next_job() is a job: the benchmark is run and its
\* result classified.
RunBenchWith(results) ==
    /\ pc = "run"
    /\ next_job(manifest_hdr) # None
    /\ \E r \in results :
          /\ result' = r
          /\ status' = classify(r)
    /\ job' = next_job(manifest_hdr)
    /\ bench' = bench_index(job'[1], config.benchmarks)
    /\ pc' = IF first_run THEN "create_table" ELSE "update"
    /\ UNCHANGED <<config, reboots0, disk, exit, first_run, manifest_hdr,
                   cur_status, ins, persisted, first_ordering, created, wrote,
                   hdr0>>

\* Any result, in at most MaxReboots iterations of an experiment.
RunBench ==
    /\ manifest_hdr.num_reboots < reboots0 + MaxReboots
    /\ RunBenchWith(RunResult)

\* Any result, but RerunError in the first MaxReboots iterations only: no
\* job yields RerunError for ever.
RunBenchRetryBounded ==
    RunBenchWith(IF manifest_hdr.num_reboots < reboots0 + MaxReboots
                 THEN RunResult
                 ELSE RunResult \ {"RerunError"})

\* K2Store::create_job_table: CREATE TABLE job.
CreateJobTable ==
    /\ pc = "create_table"
    /\ IF db_table
       THEN /\ Exit("panic_store")
            /\ UNCHANGED <<db_table, db_rows>>
       ELSE /\ db_table' = TRUE
            /\ db_rows' = <<>>
            /\ wrote' = TRUE
            /\ ins' = NoIns
            /\ pc' = IF num_jobs = 0 THEN "update" ELSE "insert"
            /\ UNCHANGED <<exit, first_run, manifest_hdr, cur_status, last,
                           created, hdr0>>
    /\ UNCHANGED <<config, reboots0, dir_exists, hdr_exists, hdr_bytes,
                   persisted, first_ordering>>

\* K2Store::create_job_table: one INSERT of the nested loops.
InsertRow ==
    /\ pc = "insert"
    /\ IF ins.id \in DOMAIN db_rows
       THEN /\ Exit("panic_store")
            /\ UNCHANGED db_rows
       ELSE /\ db_rows' = (ins.id :> Job(ins.b, Outstanding)) @@ db_rows
            /\ ins' = IF ins.b + 1 < config.benchmarks
                      THEN [p |-> ins.p, b |-> ins.b + 1, id |-> ins.id + 1]
                      ELSE [p |-> ins.p + 1, b |-> 0, id |-> ins.id + 1]
            /\ pc' = IF ins.b + 1 < config.benchmarks \/ ins.p + 1 < config.pexecs
                     THEN "insert" ELSE "update"
            /\ UNCHANGED <<exit, first_run, manifest_hdr, cur_status, last,
                           created, wrote, hdr0>>
    /\ UNCHANGED <<config, reboots0, dir_exists, hdr_exists, hdr_bytes,
                   db_table, persisted, first_ordering>>

\* update_status, update_num_reboots, and ManifestManager::sync up to the
\* write of num_reboots by ManifestHeader::sync.
Update ==
    /\ pc = "update"
    /\ LET hdr1 == update_status(manifest_hdr, status)
           hdr2 == update_num_reboots(hdr1)
       IN  IF \/ update_status_panics(manifest_hdr, status)
              \/ update_num_reboots_panics(hdr1)
              \/ sync_panics(hdr2)
           THEN /\ Exit("panic_width")
                /\ UNCHANGED <<hdr_bytes, persisted>>
           ELSE IF ~hdr_exists
           THEN /\ Exit("panic_open")
                /\ UNCHANGED <<hdr_bytes, persisted>>
           ELSE /\ manifest_hdr' = hdr2
                /\ cur_status' = status
                /\ hdr_bytes' = sync_num_reboots(hdr2, hdr_bytes)
                /\ persisted' = parse(hdr_bytes')
                /\ wrote' = TRUE
                /\ pc' = "sync_next_idx"
                /\ UNCHANGED <<exit, first_run, ins, last, created, hdr0>>
    /\ UNCHANGED <<config, reboots0, dir_exists, hdr_exists, db_table, db_rows,
                   first_ordering>>

\* ManifestHeader::sync: the write of next_idx.
SyncNextIdx ==
    /\ pc = "sync_next_idx"
    /\ hdr_bytes' = sync_next_idx(manifest_hdr, hdr_bytes)
    /\ persisted' = parse(hdr_bytes')
    /\ pc' = "store"
    /\ UNCHANGED <<config, reboots0, dir_exists, hdr_exists, db_table, db_rows,
                   exit, first_run, manifest_hdr, cur_status, ins, last, hist,
                   first_ordering>>

\* ManifestManager::sync: ordering[next_idx - 1] and K2Store::update_status.
StoreUpdate ==
    /\ pc = "store"
    /\ IF manifest_hdr.next_idx = 0
       THEN /\ Exit("panic_index")
            /\ UNCHANGED db_rows
       ELSE IF ~db_table
       THEN /\ Exit("panic_store")
            /\ UNCHANGED db_rows
       ELSE /\ db_rows' = store_update_status(
                              db_rows, manifest_hdr.ordering[manifest_hdr.next_idx],
                              cur_status)
            /\ pc' = "reboot"
            /\ UNCHANGED <<exit, first_run, manifest_hdr, cur_status, ins,
                           last, created, wrote, hdr0>>
    /\ UNCHANGED <<config, reboots0, dir_exists, hdr_exists, hdr_bytes,
                   db_table, persisted, first_ordering>>

\* Mutant of Reboot: the run loop goes on to the next job in the same process.
Reboot_in_process ==
    /\ pc = "reboot"
    /\ pc' = "run"
    /\ UNCHANGED <<config, reboots0, disk, exit, first_run, manifest_hdr,
                   cur_status, ins, last, hist, persisted, first_ordering>>

\* util::reboot: a hardware reboot is unimplemented!(); otherwise execv
\* replaces the process, or fails and run() returns Err(K2Error::Unknown).
Reboot ==
    /\ pc = "reboot"
    /\ \E hardware_reboot \in BOOLEAN :
          IF hardware_reboot
          THEN Exit("panic_reboot")
          ELSE \E execv_fails \in BOOLEAN :
                  IF execv_fails THEN Exit("err_unknown") ELSE Exit("rebooted")
    /\ UNCHANGED <<config, reboots0, disk, persisted, first_ordering>>

\* The process is killed.
Kill ==
    /\ pc # "idle"
    /\ Exit("killed")
    /\ UNCHANGED <<config, reboots0, disk, persisted, first_ordering>>

Next ==
    \/ ExperimentNew
    \/ HeaderCreate
    \/ HeaderWrite
    \/ HeaderParse
    \/ RunNone
    \/ RunBench
    \/ CreateJobTable
    \/ InsertRow
    \/ Update
    \/ SyncNextIdx
    \/ StoreUpdate
    \/ Reboot
    \/ Kill

Spec == Init /\ [][Next]_vars

SpecResume == InitResume /\ [][Next]_vars

\* The positions of a process that holds a parsed header.
ParsedPcs ==
    {"run", "create_table", "insert", "update", "sync_next_idx", "store", "reboot"}
\* Every position of a process, "idle" when there is none.
Pcs == ParsedPcs \cup {"idle", "hdr_new", "hdr_write", "hdr_parse"}

\* No process is killed and no job yields RerunError for ever.
NextNoKill ==
    \/ ExperimentNew
    \/ HeaderCreate
    \/ HeaderWrite
    \/ HeaderParse
    \/ RunNone
    \/ RunBenchRetryBounded
    \/ CreateJobTable
    \/ InsertRow
    \/ Update
    \/ SyncNextIdx
    \/ StoreUpdate
    \/ Reboot

\* The position of the process changes.  Every step of NextNoKill but
\* InsertRow changes it, InsertRow leaves it alone num_jobs - 1 times in a
\* row at most, and some step of NextNoKill is enabled in every state.
Moves == pc' \in Pcs

\* A process runs on until it ends, and a process is started whenever there
\* is none: the position changes again and again.
SpecLive == Init /\ [][NextNoKill]_vars /\ WF_pc(Moves)

(***************************************************************************)
(* Definitions shared by the properties.                                    *)
(***************************************************************************)
Terminal == {Done, Error}
Advance(st) == IF st \in Terminal THEN 1 ELSE 0
\* What a process starting now would parse.
Persisted == persisted
PersistedIsParse == persisted = parse(hdr_bytes)
IsPermutation(o, n) ==
    /\ Len(o) = n
    /\ \A id \in 0..(n - 1) : Cardinality({i \in 1..Len(o) : o[i] = id}) = 1
\* The job table's status of job id, -1 when the job has no row.
RowStatus(rows, id) == IF id \in DOMAIN rows THEN rows[id].status ELSE -1

(***************************************************************************)
(* C1: one iteration changes next_idx by exactly +1 when the job's status   *)
(* is Done or Error and by 0 when it is Outstanding, in memory and in the   *)
(* file; next_idx never decreases; and after an Outstanding outcome the     *)
(* header that the next process parses gives the same job again.            *)
(***************************************************************************)
C1_CursorStep ==
    [][/\ (pc \in ParsedPcs /\ pc' \in ParsedPcs) =>
            /\ manifest_hdr'.next_idx >= manifest_hdr.next_idx
            /\ manifest_hdr'.next_idx =
                 manifest_hdr.next_idx + (IF pc = "update" THEN Advance(status) ELSE 0)
       /\ hdr_bytes' # hdr_bytes /\ Persisted # None =>
            /\ Persisted' # None
            /\ Persisted'[1].next_idx =
                 Persisted[1].next_idx
                 + (IF pc = "sync_next_idx" THEN Advance(status) ELSE 0)
       /\ pc' = "run" => manifest_hdr' = Persisted'[1]
       /\ (pc = "run" /\ pc' \in ParsedPcs) => job' = next_job(Persisted[1])
       /\ pc' = "store" =>
            /\ manifest_hdr'.next_idx = hdr0'.next_idx + Advance(status')
            /\ Persisted'[1].next_idx = manifest_hdr'.next_idx
            /\ status' = Outstanding => next_job(Persisted'[1]) = job']_vars

\* The second iteration of the scenario: ordering [2,0,1], job 0 ends with
\* RerunError and the cursor stays at 1.
C1_Witness ==
    /\ pc = "reboot"
    /\ first_ordering = Some(<<2, 0, 1>>)
    /\ job = Some(0)
    /\ result = "RerunError"
    /\ hdr0.next_idx = 1
    /\ manifest_hdr.next_idx = 1

(***************************************************************************)
(* C2: for num_jobs > 0, the ordering of a header created on a directory    *)
(* without a header file is a permutation of 0..num_jobs, in the blank      *)
(* header and in the header parsed back from the file that was written.     *)
(***************************************************************************)
C2_FreshPermutation ==
    (created /\ num_jobs > 0) =>
        /\ pc = "hdr_write" => IsPermutation(manifest_hdr.ordering, num_jobs)
        /\ pc = "hdr_parse" =>
              /\ Persisted # None
              /\ IsPermutation(Persisted[1].ordering, num_jobs)
        /\ pc \in ParsedPcs => IsPermutation(manifest_hdr.ordering, num_jobs)

C2_Witness ==
    /\ created
    /\ pc = "run"
    /\ num_jobs = 3
    /\ manifest_hdr.ordering = <<1, 2, 0>>

(***************************************************************************)
(* C3: once the header file has been written, its ordering line (the last   *)
(* line, after the two fields, and the only one with a ',') stays as it was *)
(* written,                                                                 *)
(* and every process that parses the file obtains the ordering written at   *)
(* creation; a file left empty by a kill stays empty.                       *)
(***************************************************************************)
C3_OrderingFrozen ==
    /\ first_ordering # None =>
          /\ hdr_exists
          /\ LET line == <<"\n">> \o ORDERING \o <<"=">>
                           \o ordering_str(first_ordering[1])
                 from == Len(hdr_bytes) - Len(line) + 1
             IN  /\ from = Len(NUM_REBOOTS) + NUM_REBOOTS_BYTES
                             + Len(NEXT_IDX) + NEXT_IDX_BYTES + 4
                 /\ SubSeq(hdr_bytes, from, Len(hdr_bytes)) = line
                 /\ \A i \in 1..(from - 1) : hdr_bytes[i] # ","
          /\ Persisted # None => Persisted[1].ordering = first_ordering[1]
          /\ pc \in ParsedPcs => manifest_hdr.ordering = first_ordering[1]
    /\ (hdr_exists /\ first_ordering = None) =>
          /\ hdr_bytes = <<>>
          /\ pc \notin ParsedPcs

\* A process that did not create the header, after two completed iterations.
C3_Witness ==
    /\ pc = "store"
    /\ ~created
    /\ hdr0.num_reboots = 2
    /\ first_ordering = Some(<<2, 0, 1>>)
    /\ manifest_hdr.ordering = <<2, 0, 1>>

(***************************************************************************)
(* C4: 0 <= next_idx <= num_jobs, num_jobs being the length of ordering,    *)
(* for the header in memory and for the header in the file.                 *)
(***************************************************************************)
C4_CursorInRange ==
    /\ pc \in ParsedPcs =>
          /\ manifest_hdr.next_idx >= 0
          /\ manifest_hdr.next_idx <= Len(manifest_hdr.ordering)
    /\ Persisted # None =>
          /\ Persisted[1].next_idx >= 0
          /\ Persisted[1].next_idx <= Len(Persisted[1].ordering)

\* The last job has been closed: the cursor is num_jobs.
C4_Witness ==
    /\ pc = "reboot"
    /\ num_jobs = 3
    /\ manifest_hdr.next_idx = 3
    /\ Persisted[1].next_idx = 3

(***************************************************************************)
(* C5: next_job() is ordering[next_idx] exactly when next_idx < num_jobs    *)
(* and None otherwise; run returns Ok only with the cursor at num_jobs,     *)
(* and with the cursor at num_jobs no job is returned.                      *)
(***************************************************************************)
C5_NextJob ==
    /\ pc \in ParsedPcs \ {"run"} =>
          /\ hdr0.next_idx < num_jobs
          /\ job = Some(manifest_hdr.ordering[hdr0.next_idx + 1])
    /\ pc = "run" =>
          /\ manifest_hdr.next_idx < num_jobs =>
                next_job(manifest_hdr) = Some(manifest_hdr.ordering[manifest_hdr.next_idx + 1])
          /\ manifest_hdr.next_idx >= num_jobs => next_job(manifest_hdr) = None
    /\ exit = "ok" =>
          /\ Persisted # None
          /\ Persisted[1].next_idx = num_jobs

\* num_jobs terminal outcomes in num_jobs iterations, then None.
C5_Witness ==
    /\ exit = "ok"
    /\ num_jobs = 3
    /\ Persisted[1].num_reboots = 3
    /\ Persisted[1].next_idx = 3

(***************************************************************************)
(* C6: after ManifestManager::sync in an iteration that ran job j and       *)
(* classified it as s, the row of j has status s and every other row is     *)
(* as it was before the sync (stated for a job table that holds a row for   *)
(* every job).                                                              *)
(***************************************************************************)
C6_FlushWritesJobRow ==
    [][(pc = "store" /\ pc' = "reboot" /\ DOMAIN db_rows = 0..(num_jobs - 1)) =>
          /\ DOMAIN db_rows' = DOMAIN db_rows
          /\ RowStatus(db_rows', job[1]) = StatusCode(status)
          /\ \A id \in DOMAIN db_rows \ {job[1]} : db_rows'[id] = db_rows[id]]_vars

(***************************************************************************)
(* C7: at most one job at a position below the persisted next_idx has a     *)
(* row that is not terminal (stated for a job table that holds a row for    *)
(* every job, so the row is Outstanding).                                   *)
(***************************************************************************)
C7_StoreLagsByOne ==
    (Persisted # None /\ DOMAIN db_rows = 0..(num_jobs - 1)) =>
        Cardinality({i \in 1..Persisted[1].next_idx :
                        RowStatus(db_rows, Persisted[1].ordering[i])
                            \notin {StatusCode(Done), StatusCode(Error)}}) <= 1
(***************************************************************************)
(* C8: after ManifestHeader::sync, ManifestHeader::parse of the file yields *)
(* the num_reboots, next_idx, ordering and field offsets of the header in   *)
(* memory, and the ordering and offsets are those parsed before the sync.   *)
(***************************************************************************)
C8_SyncParseRoundTrip ==
    pc \in {"store", "reboot"} =>
        /\ parse(hdr_bytes) = Some(manifest_hdr)
        /\ first_ordering = Some(manifest_hdr.ordering)
        /\ manifest_hdr.num_reboots_offset = hdr0.num_reboots_offset
        /\ manifest_hdr.next_idx_offset = hdr0.next_idx_offset

\* Both fields at their full width.
C8_Witness ==
    /\ pc = "store"
    /\ manifest_hdr.num_reboots = Pow10(NUM_REBOOTS_BYTES) - 1
    /\ manifest_hdr.next_idx = Pow10(NEXT_IDX_BYTES) - 1
    /\ hdr0.num_reboots < manifest_hdr.num_reboots

(***************************************************************************)
(* C9: whatever the number of syncs, the file differs from the file that    *)
(* was created only in the NUM_REBOOTS_BYTES bytes of the num_reboots value *)
(* and the NEXT_IDX_BYTES bytes of the next_idx value: its length, the      *)
(* keys, the '=' and newline separators and the ordering line are the same, *)
(* and those are the offsets parse computes.                                *)
(***************************************************************************)
C9_SyncPatchesFieldsOnly ==
    first_ordering # None =>
        LET created_bytes ==
                manifest_hdr_bytes(ManifestHeader(0, 0, 0, 0, first_ordering[1]))
            off1 == Len(NUM_REBOOTS) + 1
            end1 == off1 + NUM_REBOOTS_BYTES
            off2 == end1 + 1 + Len(NEXT_IDX) + 1
            end2 == off2 + NEXT_IDX_BYTES
        IN  /\ Len(hdr_bytes) = Len(created_bytes)
            /\ SubSeq(hdr_bytes, 1, off1) = SubSeq(created_bytes, 1, off1)
            /\ SubSeq(hdr_bytes, end1 + 1, off2) = SubSeq(created_bytes, end1 + 1, off2)
            /\ SubSeq(hdr_bytes, end2 + 1, Len(hdr_bytes))
                 = SubSeq(created_bytes, end2 + 1, Len(created_bytes))
            /\ pc \in ParsedPcs =>
                  /\ manifest_hdr.num_reboots_offset = off1
                  /\ manifest_hdr.next_idx_offset = off2

\* The third sync of an experiment has written both fields.
C9_Witness ==
    /\ pc = "store"
    /\ hdr0.num_reboots = 2
    /\ hdr0.next_idx = 1
    /\ manifest_hdr.next_idx = 2

(***************************************************************************)
(* C10: when an iteration would make next_idx need more than                *)
(* NEXT_IDX_BYTES digits or num_reboots more than NUM_REBOOTS_BYTES, the    *)
(* process panics before it has written to the header file or the store in *)
(* that iteration, which leaves both as they were; and the file's two       *)
(* fields always have their configured widths.                              *)
(***************************************************************************)
WouldOverflow ==
    \/ num_digits(manifest_hdr.next_idx + Advance(status)) > NEXT_IDX_BYTES
    \/ num_digits(manifest_hdr.num_reboots + 1) > NUM_REBOOTS_BYTES
FieldWidthsKept ==
    hdr_bytes # <<>> =>
        LET off1 == Len(NUM_REBOOTS) + 1
            end1 == off1 + NUM_REBOOTS_BYTES
            off2 == end1 + 1 + Len(NEXT_IDX) + 1
            end2 == off2 + NEXT_IDX_BYTES
        IN  /\ Len(hdr_bytes) > end2
            /\ SubSeq(hdr_bytes, 1, off1) = NUM_REBOOTS \o <<"=">>
            /\ \A i \in (off1 + 1)..end1 : hdr_bytes[i] \in DigitChars
            /\ SubSeq(hdr_bytes, end1 + 1, off2) = <<"\n">> \o NEXT_IDX \o <<"=">>
            /\ \A i \in (off2 + 1)..end2 : hdr_bytes[i] \in DigitChars
            /\ hdr_bytes[end2 + 1] = "\n"
C10_WidthOverflowAborts ==
    [][/\ ((pc = "update" /\ WouldOverflow) \/ exit' = "panic_width") =>
            /\ pc' = "idle"
            /\ ~wrote
            /\ UNCHANGED disk
       /\ (pc = "update" /\ WouldOverflow /\ exit' # "killed") => exit' = "panic_width"
       /\ FieldWidthsKept
       /\ FieldWidthsKept']_vars

\* The last of WideJobs jobs ends Done: next_idx would need one digit more.
C10_Witness ==
    /\ exit = "panic_width"
    /\ persisted # None
    /\ persisted[1].next_idx = Pow10(NEXT_IDX_BYTES) - 1
    /\ persisted[1].num_reboots < Pow10(NUM_REBOOTS_BYTES) - 1
\* The job ends with RerunError: num_reboots would need one digit more.
C10_WitnessReboots ==
    /\ exit = "panic_width"
    /\ persisted # None
    /\ persisted[1].num_reboots = Pow10(NUM_REBOOTS_BYTES) - 1
(***************************************************************************)
(* C11: the persisted num_reboots is the number of completed iterations:    *)
(* it never decreases, and a process that is not killed leaves it one more  *)
(* than it parsed when its iteration completed (the store update was done)  *)
(* and as it parsed otherwise (stated for a job table that holds a row for  *)
(* every job).                                                              *)
(***************************************************************************)
C11_RebootsCountIterations ==
    [][/\ (Persisted # None /\ Persisted' # None) =>
            Persisted'[1].num_reboots >= Persisted[1].num_reboots
       /\ (/\ pc \in ParsedPcs
           /\ pc' = "idle"
           /\ exit' # "killed"
           /\ db_table
           /\ DOMAIN db_rows = 0..(num_jobs - 1)) =>
            /\ Persisted' # None
            /\ Persisted'[1].num_reboots =
                 hdr0.num_reboots + (IF pc = "reboot" THEN 1 ELSE 0)]_vars
(***************************************************************************)
(* C12: when a process is killed in its iteration, the file parses, to the  *)
(* ordering the process held and to the next_idx it parsed or that plus     *)
(* one; killed between the two writes of sync, the file holds num_reboots   *)
(* incremented with the next_idx the process parsed, so that next_job()     *)
(* gives the same job; and a process that finds a file that parses obtains  *)
(* exactly that header.                                                     *)
(***************************************************************************)
C12_KillLeavesParsableHeader ==
    [][/\ (pc \in ParsedPcs /\ pc' = "idle" /\ exit' = "killed") =>
            /\ Persisted' # None
            /\ Persisted'[1].ordering = manifest_hdr.ordering
            /\ Persisted'[1].next_idx \in {hdr0.next_idx, hdr0.next_idx + 1}
            /\ pc \in {"run", "create_table", "insert", "update"} =>
                  /\ Persisted'[1].num_reboots = hdr0.num_reboots
                  /\ Persisted'[1].next_idx = hdr0.next_idx
            /\ pc = "sync_next_idx" =>
                  /\ Persisted'[1].num_reboots = hdr0.num_reboots + 1
                  /\ Persisted'[1].next_idx = hdr0.next_idx
                  /\ next_job(Persisted'[1]) = job
            /\ pc \in {"store", "reboot"} =>
                  /\ Persisted'[1].num_reboots = hdr0.num_reboots + 1
                  /\ Persisted'[1].next_idx = hdr0.next_idx + Advance(status)
       /\ (pc = "hdr_new" /\ Persisted # None /\ exit' # "killed") =>
            /\ pc' = "run"
            /\ manifest_hdr' = Persisted[1]]_vars

\* Between the two writes of sync, in an iteration whose job ended Done: the
\* file holds the new num_reboots and the old next_idx.
C12_Witness ==
    /\ pc = "sync_next_idx"
    /\ status = Done
    /\ hdr0.num_reboots = 1
    /\ hdr0.next_idx = 1
    /\ manifest_hdr.next_idx = 2
    /\ Persisted[1].num_reboots = 2
    /\ Persisted[1].next_idx = 1
(***************************************************************************)
(* C13: run returns Ok exactly when next_job() is None at its start, which  *)
(* is when the persisted next_idx is num_jobs; a process that found a job   *)
(* never returns Ok; and a process that finds the schedule exhausted writes *)
(* nothing to the results directory.                                        *)
(***************************************************************************)
C13_OkIffExhausted ==
    [][/\ exit' = "ok" =>
            /\ pc = "run"
            /\ next_job(manifest_hdr) = None
            /\ Persisted # None
            /\ manifest_hdr = Persisted[1]
            /\ Persisted[1].next_idx = num_jobs
            /\ UNCHANGED disk
       /\ (pc = "run" /\ exit' # "killed") =>
            /\ (next_job(manifest_hdr) = None) = (exit' = "ok")
            /\ (next_job(manifest_hdr) = None) = (manifest_hdr.next_idx = num_jobs)
       /\ pc \in ParsedPcs \ {"run"} => exit' # "ok"
       /\ (/\ pc \in {"idle", "hdr_new", "run"}
           /\ Persisted # None
           /\ Persisted[1].next_idx = num_jobs) =>
            /\ UNCHANGED disk
            /\ pc' \in {"idle", "hdr_new", "run"}]_vars

\* Two jobs and one retry: the fourth process finds nothing to run.
C13_Witness ==
    /\ exit = "ok"
    /\ num_jobs = 2
    /\ Persisted[1].next_idx = 2
    /\ Persisted[1].num_reboots = 3
    /\ \A id \in 0..1 : RowStatus(db_rows, id) # StatusCode(Outstanding)
(***************************************************************************)
(* C14: the run loop classifies success as Done, RerunError as Outstanding, *)
(* Unknown as Error and ExecutionFailed as Error; the flush of an iteration *)
(* leaves the cursor where it was exactly for RerunError and advances it by *)
(* one for every other result.                                              *)
(***************************************************************************)
C14_Classification ==
    [][/\ (pc = "run" /\ pc' \in ParsedPcs) =>
            /\ result' \in {Ok, "RerunError", "Unknown", "ExecutionFailed"}
            /\ result' = Ok => status' = Done
            /\ result' = "RerunError" => status' = Outstanding
            /\ result' = "Unknown" => status' = Error
            /\ result' = "ExecutionFailed" => status' = Error
       /\ (pc \in ParsedPcs /\ pc' \in ParsedPcs /\ pc # "run") =>
            /\ result' = result
            /\ status' = status
       /\ pc' = "store" =>
            /\ cur_status' = status'
            /\ Persisted' # None
            /\ Persisted'[1].next_idx =
                 hdr0'.next_idx + (IF result' = "RerunError" THEN 0 ELSE 1)]_vars

\* An Unknown error has closed job 1 of 3.
C14_Witness ==
    /\ pc = "store"
    /\ result = "Unknown"
    /\ status = Error
    /\ cur_status = Error
    /\ hdr0.next_idx = 0
    /\ Persisted[1].next_idx = 1
    /\ num_jobs = 3
(***************************************************************************)
(* C15: a process that found a job, whatever the job's result and the       *)
(* cursor, completes update_status, update_num_reboots, the header sync and *)
(* the store update without aborting, and reboots only after them (stated   *)
(* for a job table that holds a row for every job; a kill is not an abort). *)
(***************************************************************************)
C15_PersistenceCompletes ==
    [][/\ (/\ pc \in {"update", "sync_next_idx", "store"}
           /\ hdr_exists
           /\ db_table
           /\ DOMAIN db_rows = 0..(num_jobs - 1)) =>
            \/ exit' = "killed"
            \/ /\ pc = "update" /\ pc' = "sync_next_idx"
            \/ /\ pc = "sync_next_idx" /\ pc' = "store"
            \/ /\ pc = "store" /\ pc' = "reboot"
       /\ pc' = "reboot" => pc = "store"]_vars
(***************************************************************************)
(* C16: a process runs at most one job: it is given a job only by the step  *)
(* from the start of run, which it takes at most once; its cursor and the   *)
(* persisted cursor are the parsed one or one more, and num_reboots the     *)
(* parsed one or one more; and a process comes to the start of run only as  *)
(* a new process, with the header it has just read from the file.           *)
(***************************************************************************)
C16_OneJobPerProcess ==
    [][/\ job' # job => (pc = "run" \/ pc' = "idle")
       /\ pc' = "run" =>
            /\ pc \in {"hdr_new", "hdr_parse"}
            /\ job' = None
            /\ manifest_hdr' = parse(hdr_bytes)[1]
       /\ pc' = "hdr_new" => pc = "idle"
       /\ (pc = "run" /\ pc' \in ParsedPcs) =>
            /\ job = None
            /\ job' = next_job(manifest_hdr)
       /\ (pc' \in ParsedPcs /\ Persisted' # None) =>
            /\ manifest_hdr'.next_idx - hdr0'.next_idx \in {0, 1}
            /\ manifest_hdr'.num_reboots - hdr0'.num_reboots \in {0, 1}
            /\ Persisted'[1].next_idx - hdr0'.next_idx \in {0, 1}
            /\ Persisted'[1].num_reboots - hdr0'.num_reboots \in {0, 1}]_vars

\* A process has run the second job of three and flushed it.
C16_Witness ==
    /\ pc = "reboot"
    /\ num_jobs = 3
    /\ job = Some(manifest_hdr.ordering[2])
    /\ hdr0.next_idx = 1
    /\ hdr0.num_reboots = 1
    /\ Persisted[1].next_idx = 2
    /\ Persisted[1].num_reboots = 2
(***************************************************************************)
(* C17: when processes keep being started, none is killed and no job        *)
(* yields RerunError for ever, some process finds next_job() None and       *)
(* returns Ok.                                                              *)
(***************************************************************************)
C17_EventuallyOk == <>(exit = "ok")

(***************************************************************************)
(* C18: a job whose terminal outcome (Done or Error) was persisted by an    *)
(* advance of the cursor is never selected by next_job() again.  The closed *)
(* jobs are the ones before the persisted cursor in the ordering the header *)
(* was created with; no step opens a closed job again, and the job a        *)
(* process selects is not closed.                                           *)
(***************************************************************************)
ClosedJobs(p, o) ==
    IF p = None \/ o = None
    THEN {}
    ELSE {o[1][i] : i \in 1..p[1].next_idx}

C18_ClosedJobNotSelected ==
    [][/\ ClosedJobs(Persisted, first_ordering)
              \subseteq ClosedJobs(Persisted', first_ordering')
       /\ (pc = "run" /\ pc' \in ParsedPcs) =>
              /\ job' # None
              /\ job'[1] \notin ClosedJobs(Persisted, first_ordering)]_vars

\* A job has ended in Error, its row says so, and a later process has
\* selected another job.
C18_Witness ==
    /\ pc = "update"
    /\ job # None
    /\ \E k \in ClosedJobs(Persisted, first_ordering) :
          /\ RowStatus(db_rows, k) = StatusCode(Error)
          /\ k # job[1]

C19_WitnessPexecs ==
    /\ config = [pexecs |-> 3, benchmarks |-> 1]
    /\ pc = "update"
    /\ manifest_hdr.next_idx = 2
    /\ job # None
    /\ bench = 0
    /\ DOMAIN db_rows = 0..2

(***************************************************************************)
(* C20: whenever a process reaches K2Store::update_status in the flush, the *)
(* job table exists and holds one row for every job id in 0..num_jobs,      *)
(* whatever the earlier processes did and wherever they were killed.        *)
(***************************************************************************)
C20_TableExistsAtStoreUpdate ==
    (pc = "store" /\ manifest_hdr.next_idx > 0) =>
        /\ db_table
        /\ DOMAIN db_rows = 0..(num_jobs - 1)

(***************************************************************************)
(* C21: the store is never ahead of the header.  A step that changes the    *)
(* row of a job to Done or Error changes the row of a job at a position     *)
(* below the persisted next_idx, the header fields having been written      *)
(* before the row.                                                          *)
(***************************************************************************)
C21_StoreNotAheadOfHeader ==
    [][\A id \in DOMAIN db_rows' :
          (/\ RowStatus(db_rows', id) # RowStatus(db_rows, id)
           /\ RowStatus(db_rows', id) \in {StatusCode(Done), StatusCode(Error)})
          => /\ Persisted # None
             /\ id \in ClosedJobs(Persisted, first_ordering)
             /\ Persisted' = Persisted]_vars

\* The flush has written the header and then set the row of the job it
\* ran to Error.
C21_Witness ==
    /\ pc = "reboot"
    /\ job # None
    /\ cur_status = Error
    /\ RowStatus(db_rows, job[1]) = StatusCode(Error)
    /\ job[1] \in ClosedJobs(Persisted, first_ordering)

(***************************************************************************)
(* C22: whenever ManifestHeader::new returns, the header file is on disk    *)
(* and the header returned is the one the file parses to.  In the process   *)
(* that created the file it has num_reboots = 0, next_idx = 0 and a         *)
(* permutation of 0..num_jobs, and the job then selected is ordering[0]; in *)
(* a process that found the file it has the ordering the file was created   *)
(* with, whatever num_jobs is.                                              *)
(***************************************************************************)
C22_NewReturnsPersisted ==
    [][/\ (pc # "run" /\ pc' = "run") =>
            /\ hdr_exists'
            /\ Persisted' # None
            /\ manifest_hdr' = Persisted'[1]
            /\ manifest_hdr' = parse(hdr_bytes)[1]
            /\ first_ordering' = Some(manifest_hdr'.ordering)
            /\ created' =>
                  /\ manifest_hdr'.num_reboots = 0
                  /\ manifest_hdr'.next_idx = 0
                  /\ IsPermutation(manifest_hdr'.ordering, num_jobs)
                  /\ next_job(manifest_hdr') = Some(manifest_hdr'.ordering[1])
       /\ (pc = "run" /\ pc' \in ParsedPcs /\ created) =>
            job' = Some(first_ordering[1][1])]_vars

\* The process that created the header of three jobs has selected
\* ordering[0].
C22_Witness ==
    /\ created
    /\ pc = "update"
    /\ num_jobs = 3
    /\ job = Some(manifest_hdr.ordering[1])
    /\ hdr0.num_reboots = 0
    /\ hdr0.next_idx = 0

\* A process that found the file has parsed a cursor of 2 and 3 reboots.
C22_WitnessExisting ==
    /\ ~created
    /\ pc = "run"
    /\ manifest_hdr = Persisted[1]
    /\ manifest_hdr.next_idx = 2
    /\ manifest_hdr.num_reboots = 3

(***************************************************************************)
(* C23: the persisted num_reboots is at least the persisted next_idx in     *)
(* every state, between the two writes of ManifestHeader::sync included:    *)
(* num_reboots is incremented in every iteration and written first,         *)
(* next_idx is incremented at most once an iteration and written second.    *)
(***************************************************************************)
C23_RebootsAtLeastCursor ==
    Persisted # None => Persisted[1].num_reboots >= Persisted[1].next_idx

\* Between the two writes of the third iteration, after two jobs that were
\* Done at once: num_reboots 3 is on disk with next_idx 2, and 3 in memory.
C23_Witness ==
    /\ pc = "sync_next_idx"
    /\ Persisted # None
    /\ Persisted[1].num_reboots = 3
    /\ Persisted[1].next_idx = 2
    /\ manifest_hdr.next_idx = 3

(***************************************************************************)
(* C24: whenever ManifestManager::sync picks the row of the store, next_idx *)
(* is at least 1 and ordering[next_idx - 1] is the job the process ran, for *)
(* every cursor and every outcome.                                          *)
(***************************************************************************)
C24_SyncIndexIsJobRun ==
    pc = "store" =>
        /\ manifest_hdr.next_idx >= 1
        /\ job = Some(manifest_hdr.ordering[manifest_hdr.next_idx])

(***************************************************************************)
(* C25: when no process is killed, the jobs are given their terminal        *)
(* outcomes in the order ordering[0], ordering[1], ...  A job that gets a   *)
(* terminal outcome is the one at the persisted next_idx and was not closed *)
(* before; the process that gave it ends with the advance persisted; the    *)
(* jobs before the persisted next_idx grow by that job and by nothing else; *)
(* and when run returns Ok they are all of 0..num_jobs, each at one         *)
(* position.                                                                *)
(***************************************************************************)
C25_ClosedInOrder ==
    [][/\ (pc = "run" /\ pc' \in ParsedPcs /\ status' \in Terminal) =>
            /\ Persisted[1].next_idx = manifest_hdr.next_idx
            /\ job' = Some(first_ordering[1][Persisted[1].next_idx + 1])
            /\ job'[1] \notin ClosedJobs(Persisted, first_ordering)
       /\ (pc \in ParsedPcs /\ pc' = "idle" /\ job # None /\ status \in Terminal) =>
            /\ Persisted[1].next_idx = hdr0.next_idx + 1
            /\ ClosedJobs(Persisted, first_ordering)
                  = {first_ordering[1][i] : i \in 1..hdr0.next_idx} \cup {job[1]}
       /\ ClosedJobs(Persisted', first_ordering') =
              ClosedJobs(Persisted, first_ordering)
                 \cup (IF pc = "sync_next_idx" /\ status \in Terminal
                       THEN {job[1]} ELSE {})
       /\ (pc = "run" /\ exit' = "ok") =>
            /\ Persisted[1].next_idx = num_jobs
            /\ ClosedJobs(Persisted, first_ordering) = 0..(num_jobs - 1)
            /\ IsPermutation(first_ordering[1], num_jobs)]_vars

\* The schedule of three jobs is exhausted and run has returned Ok; the
\* second job in the ordering ended in Error.
C25_Witness ==
    /\ exit = "ok"
    /\ num_jobs = 3
    /\ Persisted[1].next_idx = 3
    /\ db_table
    /\ RowStatus(db_rows, first_ordering[1][2]) = StatusCode(Error)

(***************************************************************************)
(* C26: once the row of a job holds Done or Error, no step changes that     *)
(* row: a terminal status in the store never goes back to Outstanding,      *)
(* whatever the outcomes of the later jobs.                                 *)
(***************************************************************************)
C26_TerminalRowKept ==
    [][\A id \in DOMAIN db_rows :
          db_rows[id].status \in {StatusCode(Done), StatusCode(Error)}
          => /\ id \in DOMAIN db_rows'
             /\ db_rows'[id] = db_rows[id]]_vars
====
